---- MODULE Spec2Model ----
(***************************************************************************)
(* Model of cxn's check orchestration: check_host, the sequential and the   *)
(* parallel scheduler of check.rs, the aggregate tally of cmd_check and the *)
(* watch loop of run_check_with_watch (main.rs).                            *)
(***************************************************************************)
EXTENDS Integers, Sequences, FiniteSets, TLC

\* ------------------------------------------------------------------ bounds
\* longest host list of a check run
MaxHosts == 2

\* ------------------------------------------------------- program constants
\* check.rs:12
MAX_CONCURRENT_CHECKS == 20

\* config.rs:21, Config::default().timeout_ms
DefaultTimeoutMs == 1000

\* ------------------------------------------------------------ Option<T>
None == <<>>
Some(v) == <<v>>
IsSome(o) == Len(o) = 1
IsNone(o) == Len(o) = 0
Unwrap(o) == o[1]

\* ------------------------------------------------------------ addresses
\* std::net::IpAddr values: the family and the textual form
V4(t) == [v6 |-> FALSE, text |-> t]
V6(t) == [v6 |-> TRUE, text |-> t]

Ip8888 == V4("8.8.8.8")
Ip4Host == V4("93.184.216.34")
Ip6Host == V6("2001:db8::1")
IpUnspecified == V4("0.0.0.0")

\* the address strings a configuration uses: one literal IP, one hostname
Addresses == {"8.8.8.8", "bad.invalid"}

\* str::parse::<IpAddr>: Some(ip) for a literal IP, None for a hostname
ParseIpAddr(s) ==
    IF s = "8.8.8.8" THEN Some(Ip8888)
    ELSE IF s = "0.0.0.0" THEN Some(IpUnspecified)
    ELSE None

\* ------------------------------------------------------------ HostConfig
HostNames == <<"A", "B", "C", "D", "E", "F">>

HostConfig(n, a, p, d) == [name |-> n, address |-> a, ping |-> p, dns |-> d]

\* HostConfig::is_ip_address
is_ip_address(h) == IsSome(ParseIpAddr(h.address))

\* HostConfig::has_checks
has_checks(h) == h.ping \/ h.dns

\* the dns flag alone, the literal-IP test forgotten
should_resolve_dns_any_address(h) == h.dns

\* HostConfig::should_resolve_dns
should_resolve_dns(h) == h.dns /\ ~is_ip_address(h)

\* host lists of length n whose i-th host is named HostNames[i]
HostListsOfLen(n) ==
    { [i \in 1..n |-> HostConfig(HostNames[i], f[i][1], f[i][2], f[i][3])] :
        f \in [1..n -> Addresses \X BOOLEAN \X BOOLEAN] }

HostLists == UNION { HostListsOfLen(n) : n \in 0..MaxHosts }

\* ------------------------------------------------------------ DnsResult
\* DnsResult::success
DnsSuccess(n, hn, addrs) ==
    [name |-> n, hostname |-> hn, success |-> TRUE, addresses |-> addrs, error |-> None]

\* DnsResult::failure
DnsFailure(n, hn, e) ==
    [name |-> n, hostname |-> hn, success |-> FALSE, addresses |-> <<>>, error |-> Some(e)]

\* what resolver.lookup_ip answers for a hostname
LookupOk(ips) == [ok |-> TRUE, ips |-> ips, kind |-> "none"]
LookupErr(k) == [ok |-> FALSE, ips |-> <<>>, kind |-> k]

LookupOutcomes ==
    { LookupErr("NoRecordsFound"), LookupOk(<<Ip4Host>>), LookupOk(<<Ip6Host, Ip4Host>>),
      LookupOk(<<Ip6Host>>) }

\* format_dns_error
format_dns_error(kind) ==
    IF kind = "NoRecordsFound" THEN "no such host"
    ELSE IF kind = "Timeout" THEN "timeout"
    ELSE kind

\* Vec filter of resolve_dns: keep ip when ip.is_ipv4() || include_ipv6
RECURSIVE FilterIps(_, _)
FilterIps(ips, include_ipv6) ==
    IF ips = <<>> THEN <<>>
    ELSE LET rest == FilterIps(Tail(ips), include_ipv6)
         IN IF ~Head(ips).v6 \/ include_ipv6 THEN <<Head(ips)>> \o rest ELSE rest

\* dns::resolve_dns
resolve_dns(lookup, n, hn, include_ipv6) ==
    IF ~lookup.ok THEN DnsFailure(n, hn, format_dns_error(lookup.kind))
    ELSE LET addresses == FilterIps(lookup.ips, include_ipv6)
         IN IF addresses = <<>> THEN DnsFailure(n, hn, "no addresses found")
            ELSE DnsSuccess(n, hn, addresses)

\* ------------------------------------------------------------ PingResult
\* PingResult::success
PingSuccess(n, a, rtt) ==
    [name |-> n, address |-> a, success |-> TRUE, rtt |-> Some(rtt), error |-> None]

\* PingResult::failure
PingFailure(n, a, e) ==
    [name |-> n, address |-> a, success |-> FALSE, rtt |-> None, error |-> Some(e)]

\* what one pinger.ping() answers: Ok((_, rtt)) in ms, or a SurgeError
EchoOk(rtt) == [ok |-> TRUE, rtt |-> rtt, kind |-> "none"]
EchoErr(k) == [ok |-> FALSE, rtt |-> 0, kind |-> k]

EchoOutcomes == { EchoOk(10), EchoErr("Timeout") }

\* format_ping_error; a message is the sequence of its formatted pieces
format_ping_error(kind, timeout) ==
    IF kind = "Timeout" THEN <<"timeout after ", timeout, "ms">>
    ELSE IF kind = "PermissionDenied" THEN <<"permission denied (need cap_net_raw)">>
    ELSE <<"io error: ", kind>>

RECURSIVE SumRtt(_)
SumRtt(rtts) == IF rtts = <<>> THEN 0 ELSE Head(rtts) + SumRtt(Tail(rtts))

\* the for loop of ping_host over the echoes of one session
RECURSIVE PingLoop(_, _, _, _)
PingLoop(echoes, timeout, rtts, last_error) ==
    IF echoes = <<>> THEN [rtts |-> rtts, last_error |-> last_error]
    ELSE IF Head(echoes).ok
         THEN PingLoop(Tail(echoes), timeout, Append(rtts, Head(echoes).rtt), last_error)
         ELSE PingLoop(Tail(echoes), timeout, rtts,
                       Some(format_ping_error(Head(echoes).kind, timeout)))

\* ping_host with the sum of the round-trip times divided by count
ping_host_mean_over_count(echoes, n, address, timeout) ==
    LET l == PingLoop(echoes, timeout, <<>>, None)
    IN IF l.rtts = <<>>
       THEN PingFailure(n, address,
                        IF IsSome(l.last_error) THEN Unwrap(l.last_error)
                        ELSE <<"all pings failed">>)
       ELSE PingSuccess(n, address, SumRtt(l.rtts) \div Len(echoes))

\* ping::ping_host, given the answers to its count echoes
ping_host(echoes, n, address, timeout) ==
    LET l == PingLoop(echoes, timeout, <<>>, None)
    IN IF l.rtts = <<>>
       THEN PingFailure(n, address,
                        IF IsSome(l.last_error) THEN Unwrap(l.last_error)
                        ELSE <<"all pings failed">>)
       ELSE PingSuccess(n, address, SumRtt(l.rtts) \div Len(l.rtts))

\* ------------------------------------------------------------ CheckResult
CheckResult(n, a, d, p) == [name |-> n, address |-> a, dns |-> d, ping |-> p]

\* an absent sub-result counted as a failure (is_some_and for is_none_or)
is_success_absent_fails(r) ==
    /\ IsSome(r.dns) /\ Unwrap(r.dns).success
    /\ IsSome(r.ping) /\ Unwrap(r.ping).success

\* CheckResult::is_success; is_none_or is true of None and the closure's value of Some
is_success(r) ==
    LET dns_ok == IF IsNone(r.dns) THEN TRUE ELSE Unwrap(r.dns).success
        ping_ok == IF IsNone(r.ping) THEN TRUE ELSE Unwrap(r.ping).success
    IN dns_ok /\ ping_ok

\* ------------------------------------------------------------ check_host
Hostnames == { a \in Addresses : IsNone(ParseIpAddr(a)) }
PingTargets == { Ip8888, Ip4Host, Ip6Host }

\* the pinger's answers per target; the ICMPv4 client of create_client gets no echo
\* from the IPv6 target
EchoEnvs == { e \in [PingTargets -> EchoOutcomes] : ~e[Ip6Host].ok }

ResolverCall(hn, include_ipv6) == [hostname |-> hn, include_ipv6 |-> include_ipv6]
PingerCall(ip, timeout, count) == [ip |-> ip, timeout |-> timeout, count |-> count]

\* resolver.lookup_ip(name): a literal IP is answered with itself without a query,
\* a hostname with what the environment answers for it
LookupIp(lookup, name) ==
    IF IsSome(ParseIpAddr(name)) THEN LookupOk(<<Unwrap(ParseIpAddr(name))>>)
    ELSE lookup[name]

\* the last address of the list taken instead of the first
LastOf(s) == IF s = <<>> THEN None ELSE Some(s[Len(s)])

\* Vec::first().copied()
First(s) == IF s = <<>> THEN None ELSE Some(s[1])

\* the DNS stage with the lookup made for ping's sake recorded as the dns outcome
DnsStageRecordsInternalLookup(host, lookup) ==
    LET parsed == ParseIpAddr(host.address)
    IN IF should_resolve_dns(host) \/ (IsNone(parsed) /\ host.ping)
       THEN LET result == resolve_dns(LookupIp(lookup, host.address), host.name,
                                      host.address, should_resolve_dns(host))
            IN [dns_result |-> Some(result),
                resolved_ip |-> IF result.success /\ IsNone(parsed)
                                THEN First(result.addresses) ELSE parsed,
                calls |-> <<ResolverCall(host.address, should_resolve_dns(host))>>]
       ELSE [dns_result |-> None, resolved_ip |-> parsed, calls |-> <<>>]

\* the DNS stage with a second, IPv4-only lookup made for ping's sake when the dns
\* check's own lookup failed
DnsStageRetriesForPing(host, lookup) ==
    LET parsed == ParseIpAddr(host.address)
        answer == LookupIp(lookup, host.address)
    IN IF should_resolve_dns(host)
       THEN LET result == resolve_dns(answer, host.name, host.address, TRUE)
                retry == resolve_dns(answer, host.name, host.address, FALSE)
            IN IF result.success \/ ~host.ping
               THEN [dns_result |-> Some(result),
                     resolved_ip |-> IF result.success /\ IsNone(parsed)
                                     THEN First(result.addresses) ELSE parsed,
                     calls |-> <<ResolverCall(host.address, TRUE)>>]
               ELSE [dns_result |-> Some(result),
                     resolved_ip |-> IF retry.success THEN First(retry.addresses)
                                     ELSE parsed,
                     calls |-> <<ResolverCall(host.address, TRUE),
                                 ResolverCall(host.address, FALSE)>>]
       ELSE IF IsNone(parsed) /\ host.ping
       THEN LET result == resolve_dns(answer, host.name, host.address, FALSE)
            IN [dns_result |-> None,
                resolved_ip |-> IF result.success THEN First(result.addresses) ELSE parsed,
                calls |-> <<ResolverCall(host.address, FALSE)>>]
       ELSE [dns_result |-> None, resolved_ip |-> parsed, calls |-> <<>>]

\* check.rs:116-136, the address parse and the DNS stage of check_host
DnsStage(host, lookup) ==
    LET parsed == ParseIpAddr(host.address)
    IN IF should_resolve_dns(host)
       THEN LET result == resolve_dns(LookupIp(lookup, host.address), host.name, host.address, TRUE)
            IN [dns_result |-> Some(result),
                resolved_ip |-> IF result.success /\ IsNone(parsed)
                                THEN First(result.addresses) ELSE parsed,
                calls |-> <<ResolverCall(host.address, TRUE)>>]
       ELSE IF IsNone(parsed) /\ host.ping
       THEN LET result == resolve_dns(LookupIp(lookup, host.address), host.name, host.address, FALSE)
            IN [dns_result |-> None,
                resolved_ip |-> IF result.success THEN First(result.addresses) ELSE parsed,
                calls |-> <<ResolverCall(host.address, FALSE)>>]
       ELSE [dns_result |-> None, resolved_ip |-> parsed, calls |-> <<>>]

\* the ping stage with the ping skipped, not failed, when no target IP is known
PingStageSkipsUnresolved(host, echo, resolved_ip, timeout) ==
    IF host.ping /\ IsSome(resolved_ip)
    THEN LET ip == Unwrap(resolved_ip)
         IN [ping_result |-> Some(ping_host(<<echo[ip]>>, host.name, ip, timeout)),
             calls |-> <<PingerCall(ip, timeout, 1)>>]
    ELSE [ping_result |-> None, calls |-> <<>>]

\* check.rs:138-151, the ping stage of check_host
PingStage(host, echo, resolved_ip, timeout) ==
    IF host.ping
    THEN IF IsSome(resolved_ip)
         THEN LET ip == Unwrap(resolved_ip)
              IN [ping_result |-> Some(ping_host(<<echo[ip]>>, host.name, ip, timeout)),
                  calls |-> <<PingerCall(ip, timeout, 1)>>]
         ELSE [ping_result |-> Some(PingFailure(host.name, Unwrap(ParseIpAddr("0.0.0.0")),
                                                <<"could not resolve hostname">>)),
               calls |-> <<>>]
    ELSE [ping_result |-> None, calls |-> <<>>]

\* check_host with the ping stage run whatever the host's ping flag says
check_host_pings_always(host, lookup, echo, timeout) ==
    LET d == DnsStage(host, lookup)
        p == PingStage([host EXCEPT !.ping = TRUE], echo, d.resolved_ip, timeout)
    IN [result |-> CheckResult(host.name, host.address, d.dns_result, p.ping_result),
        resolver_calls |-> d.calls,
        pinger_calls |-> p.calls]

\* check_host: the result and the calls it made to the resolver and the pinger
check_host(host, lookup, echo, timeout) ==
    LET d == DnsStage(host, lookup)
        p == PingStage(host, echo, d.resolved_ip, timeout)
    IN [result |-> CheckResult(host.name, host.address, d.dns_result, p.ping_result),
        resolver_calls |-> d.calls,
        pinger_calls |-> p.calls]

\* ------------------------------------------------ Vec<(usize, CheckResult)>
Tagged(idx, r) == [idx |-> idx, result |-> r]

\* the insertion with the comparison reversed: a descending sort
RECURSIVE InsertByKeyDescending(_, _)
InsertByKeyDescending(sorted, e) ==
    IF sorted = <<>> THEN <<e>>
    ELSE IF e.idx > Head(sorted).idx THEN <<e>> \o sorted
    ELSE <<Head(sorted)>> \o InsertByKeyDescending(Tail(sorted), e)

RECURSIVE InsertByKey(_, _)
InsertByKey(sorted, e) ==
    IF sorted = <<>> THEN <<e>>
    ELSE IF e.idx < Head(sorted).idx THEN <<e>> \o sorted
    ELSE <<Head(sorted)>> \o InsertByKey(Tail(sorted), e)

\* the results left in completion order, the sort forgotten
SortByKeyCompletionOrder(s) == s

\* results.sort_by_key(|(idx, _)| *idx), a stable sort
RECURSIVE SortByKey(_)
SortByKey(s) ==
    IF s = <<>> THEN <<>>
    ELSE InsertByKey(SortByKey(SubSeq(s, 1, Len(s) - 1)), s[Len(s)])

\* what JoinSet::join_next yields for a task: Ok(output), or Err(JoinError) after a panic
JoinOk(o) == [ok |-> TRUE, out |-> Some(o)]
JoinErr == [ok |-> FALSE, out |-> None]

\* results.into_iter().map(|(_, r)| r).collect()
Untag(s) == [i \in 1..Len(s) |-> s[i].result]

\* ====================================================== the check run
VARIABLES
    hosts,           \* config.hosts(), the configured host list
    sequential,      \* the --sequential flag
    lookup_ip,       \* what the resolver answers for each hostname
    echo_reply,      \* what the pinger answers for each target IP
    pc,              \* where cmd_check is
    next_idx,        \* number of hosts the scheduler loop has taken
    permits,         \* free permits of the semaphore
    task,            \* per host index: the state of its spawned task
    join_set,        \* outputs of finished tasks, in completion order
    tagged,          \* results: Vec<(usize, CheckResult)> of run_parallel_checks
    results,         \* what run_all_checks returned
    resolver_calls,  \* per host index: the resolver calls check_host made
    pinger_calls,    \* per host index: the pinger calls check_host made
    summary,         \* success_count / hosts_checked / the bool cmd_check returns
    exit_code        \* the exit status of the process, once it has exited

checkVars == <<hosts, sequential, lookup_ip, echo_reply, pc, next_idx, permits, task,
               join_set, tagged, results, resolver_calls, pinger_calls, summary, exit_code>>

VARIABLES
    gate_hosts,     \* hosts.len()
    gate_idx,       \* number of hosts the submission loop has taken
    gate_permits,   \* free permits of the semaphore
    gate_running,   \* spawned tasks that have not finished check_host
    gate_joined,    \* results collected by the join loop
    gate_pc         \* "submit", "join" or "returned"

gateVars == <<gate_hosts, gate_idx, gate_permits, gate_running, gate_joined, gate_pc>>

VARIABLES
    w_pc,              \* "Idle", "SingleRun", "Running", "Sleeping", "Stopped" or "Failed"
    w_argv,            \* the command line: whether --watch is there, and its value if any
    w_cli,             \* the watch argument as parsed: None, Some(0) for a bare --watch, Some(n)
    w_env,             \* the CXN_WATCH_INTERVAL environment variable, if set
    w_config_interval, \* config.interval
    w_interval,        \* what resolve_watch_interval returned
    w_since_start,     \* cycle_start.elapsed(): seconds since the cycle started
    w_remaining,       \* the duration handed to tokio::time::sleep
    w_prev_len,        \* how long the check run of the previous cycle took
    w_gap,             \* seconds between the starts of the last two cycles, if two started
    w_handler,         \* TRUE once signal::ctrl_c() was polled: SIGINT no longer kills
    w_signalled,       \* TRUE once a SIGINT was delivered to the process
    w_check_runs,      \* how many check runs have been started
    w_last_ok          \* the bool the last finished check run returned, if one finished

watchVars == <<w_pc, w_argv, w_cli, w_env, w_config_interval, w_interval, w_since_start,
               w_remaining, w_prev_len, w_gap, w_handler, w_signalled, w_check_runs,
               w_last_ok>>

VARIABLES
    seq_results        \* what an earlier sequential run over the same hosts returned

pairVars == <<seq_results>>

VARIABLES
    ping_pc,           \* "idle", "called" or "returned"
    ping_echoes,       \* what the pinger answers to the echoes of one ping_host call
    ping_result        \* what that ping_host call returned

pingVars == <<ping_pc, ping_echoes, ping_result>>

vars == <<checkVars, gateVars, watchVars, pairVars, pingVars>>

\* what the actions of one part of the program leave alone
notCheckVars == <<gateVars, watchVars, pairVars, pingVars>>
notGateVars == <<checkVars, watchVars, pairVars, pingVars>>
notWatchVars == <<checkVars, gateVars, pairVars, pingVars>>
notPingVars == <<checkVars, gateVars, watchVars, pairVars>>

\* no second run to compare with
PairIdle == seq_results = None

\* no ping_host call on its own
PingIdle == ping_pc = "idle" /\ ping_echoes = <<>> /\ ping_result = None

NoSummary == [success_count |-> 0, hosts_checked |-> 0, ok |-> None]

CheckInit ==
    /\ hosts \in HostLists
    /\ sequential \in BOOLEAN
    /\ lookup_ip \in [Hostnames -> LookupOutcomes]
    /\ echo_reply \in EchoEnvs
    /\ pc = "start"
    /\ next_idx = 0
    /\ permits = 0
    /\ task = [i \in 1..Len(hosts) |-> "unspawned"]
    /\ join_set = <<>>
    /\ tagged = <<>>
    /\ results = <<>>
    /\ resolver_calls = [i \in 1..Len(hosts) |-> <<>>]
    /\ pinger_calls = [i \in 1..Len(hosts) |-> <<>>]
    /\ summary = NoSummary
    /\ exit_code = None

\* main.rs:120-125, cmd_check with no hosts configured: Ok(true)
CmdCheckNoHosts ==
    /\ pc = "start"
    /\ hosts = <<>>
    /\ pc' = "exited"
    /\ summary' = [NoSummary EXCEPT !.ok = Some(TRUE)]
    /\ exit_code' = Some(0)
    /\ UNCHANGED <<hosts, sequential, lookup_ip, echo_reply, next_idx, permits, task,
                   join_set, tagged, results, resolver_calls, pinger_calls>>
    /\ UNCHANGED notCheckVars

\* main.rs:131, ping::create_client()? fails: cmd_check returns Err, main exits with 1
CreateClientFails ==
    /\ pc = "start"
    /\ hosts # <<>>
    /\ pc' = "exited"
    /\ exit_code' = Some(1)
    /\ UNCHANGED <<hosts, sequential, lookup_ip, echo_reply, next_idx, permits, task,
                   join_set, tagged, results, resolver_calls, pinger_calls, summary>>
    /\ UNCHANGED notCheckVars

\* main.rs:131-136 and check.rs:40-65: the clients exist, run_all_checks picks the mode
RunAllChecks ==
    /\ pc = "start"
    /\ hosts # <<>>
    /\ pc' = IF ~sequential THEN "parallel" ELSE "sequential"
    /\ permits' = IF ~sequential THEN MAX_CONCURRENT_CHECKS ELSE permits
    /\ UNCHANGED <<hosts, sequential, lookup_ip, echo_reply, next_idx, task,
                   join_set, tagged, results, resolver_calls, pinger_calls, summary, exit_code>>
    /\ UNCHANGED notCheckVars

\* check.rs:99-104, one iteration of run_sequential_checks; the last one returns
SequentialCheck ==
    /\ pc = "sequential"
    /\ next_idx < Len(hosts)
    /\ LET c == check_host(hosts[next_idx + 1], lookup_ip, echo_reply, DefaultTimeoutMs)
           pushed == Append(results, c.result)
       IN /\ results' = pushed
          /\ resolver_calls' = [resolver_calls EXCEPT ![next_idx + 1] = c.resolver_calls]
          /\ pinger_calls' = [pinger_calls EXCEPT ![next_idx + 1] = c.pinger_calls]
    /\ next_idx' = next_idx + 1
    /\ pc' = IF next_idx + 1 = Len(hosts) THEN "returned" ELSE pc
    /\ UNCHANGED <<hosts, sequential, lookup_ip, echo_reply, permits, task,
                   join_set, tagged, summary, exit_code>>
    /\ UNCHANGED notCheckVars

\* check.rs:67-78, one iteration of the submission loop: acquire a permit, spawn the task
Submit ==
    /\ pc = "parallel"
    /\ next_idx < Len(hosts)
    /\ permits > 0
    /\ permits' = permits - 1
    /\ task' = [task EXCEPT ![next_idx + 1] = "running"]
    /\ next_idx' = next_idx + 1
    /\ UNCHANGED <<hosts, sequential, lookup_ip, echo_reply, pc,
                   join_set, tagged, results, resolver_calls, pinger_calls, summary, exit_code>>
    /\ UNCHANGED notCheckVars

\* the task with the permit dropped only when the host's checks succeeded
TaskCompleteKeepsPermitOnFailure(i) ==
    /\ pc = "parallel"
    /\ task[i] = "running"
    /\ LET c == check_host(hosts[i], lookup_ip, echo_reply, DefaultTimeoutMs)
       IN /\ join_set' = Append(join_set, JoinOk(Tagged(i - 1, c.result)))
          /\ resolver_calls' = [resolver_calls EXCEPT ![i] = c.resolver_calls]
          /\ pinger_calls' = [pinger_calls EXCEPT ![i] = c.pinger_calls]
          /\ permits' = IF is_success(c.result) THEN permits + 1 ELSE permits
    /\ task' = [task EXCEPT ![i] = "finished"]
    /\ UNCHANGED <<hosts, sequential, lookup_ip, echo_reply, pc, next_idx,
                   tagged, results, summary, exit_code>>
    /\ UNCHANGED notCheckVars

\* check.rs:73-77, a spawned task runs check_host, drops its permit and yields (idx, result)
TaskComplete(i) ==
    /\ pc = "parallel"
    /\ task[i] = "running"
    /\ LET c == check_host(hosts[i], lookup_ip, echo_reply, DefaultTimeoutMs)
       IN /\ join_set' = Append(join_set, JoinOk(Tagged(i - 1, c.result)))
          /\ resolver_calls' = [resolver_calls EXCEPT ![i] = c.resolver_calls]
          /\ pinger_calls' = [pinger_calls EXCEPT ![i] = c.pinger_calls]
    /\ permits' = permits + 1
    /\ task' = [task EXCEPT ![i] = "finished"]
    /\ UNCHANGED <<hosts, sequential, lookup_ip, echo_reply, pc, next_idx,
                   tagged, results, summary, exit_code>>
    /\ UNCHANGED notCheckVars

\* check.rs:82-84, join_next() yields Some(Ok((idx, result))): push it
JoinNext ==
    /\ pc = "parallel"
    /\ next_idx = Len(hosts)
    /\ join_set # <<>>
    /\ Head(join_set).ok
    /\ tagged' = Append(tagged, Unwrap(Head(join_set).out))
    /\ join_set' = Tail(join_set)
    /\ task' = [task EXCEPT ![Unwrap(Head(join_set).out).idx + 1] = "joined"]
    /\ UNCHANGED <<hosts, sequential, lookup_ip, echo_reply, pc, next_idx, permits,
                   results, resolver_calls, pinger_calls, summary, exit_code>>
    /\ UNCHANGED notCheckVars

\* check.rs:82-86, join_next() yields None: sort by index, strip the tags, return
CollectReturn ==
    /\ pc = "parallel"
    /\ next_idx = Len(hosts)
    /\ \A i \in 1..Len(hosts) : task[i] = "joined"
    /\ results' = Untag(SortByKey(tagged))
    /\ pc' = "returned"
    /\ UNCHANGED <<hosts, sequential, lookup_ip, echo_reply, next_idx, permits, task,
                   join_set, tagged, resolver_calls, pinger_calls, summary, exit_code>>
    /\ UNCHANGED notCheckVars

\* main.rs:139-153, the success_count loop of cmd_check over the results
RECURSIVE CountSuccess(_)
CountSuccess(rs) ==
    IF rs = <<>> THEN 0
    ELSE (IF is_success(Head(rs)) THEN 1 ELSE 0) + CountSuccess(Tail(rs))

\* main.rs:160, hosts.iter().filter(|h| h.has_checks()).count()
RECURSIVE CountChecked(_)
CountChecked(hs) ==
    IF hs = <<>> THEN 0
    ELSE (IF has_checks(Head(hs)) THEN 1 ELSE 0) + CountChecked(Tail(hs))

\* main.rs:161-181 and 260-263: the exit statuses the tally can end in. The usize
\* subtraction hosts_checked - success_count panics in a build with overflow checks
\* (status 101) and wraps in one without (Ok(false), status 1).
TallyExitCodes(success_count, hosts_checked) ==
    IF success_count = hosts_checked THEN {0}
    ELSE IF success_count > hosts_checked THEN {1, 101}
    ELSE {1}

\* main.rs:139-181 and 260-263: tally the results, print the summary, exit
CmdCheckSummary ==
    /\ pc = "returned"
    /\ LET success_count == CountSuccess(results)
           hosts_checked == CountChecked(hosts)
       IN /\ summary' = [success_count |-> success_count,
                         hosts_checked |-> hosts_checked,
                         ok |-> Some(success_count = hosts_checked)]
          /\ exit_code' \in { Some(c) : c \in TallyExitCodes(success_count, hosts_checked) }
    /\ pc' = "exited"
    /\ UNCHANGED <<hosts, sequential, lookup_ip, echo_reply, next_idx, permits, task,
                   join_set, tagged, results, resolver_calls, pinger_calls>>
    /\ UNCHANGED notCheckVars

\* ------------------------------------------- a unit of work that panics
\* check.rs:73-77, the spawned task panics inside check_host: unwinding drops the
\* permit the task owns, and the JoinSet records a JoinError for it
TaskPanics(i) ==
    /\ pc = "parallel"
    /\ task[i] = "running"
    /\ join_set' = Append(join_set, JoinErr)
    /\ permits' = permits + 1
    /\ task' = [task EXCEPT ![i] = "panicked"]
    /\ UNCHANGED <<hosts, sequential, lookup_ip, echo_reply, pc, next_idx,
                   tagged, results, resolver_calls, pinger_calls, summary, exit_code>>
    /\ UNCHANGED notCheckVars

\* check.rs:82-86, join_next() yields Some(Err(_)): the `while let Some(Ok(..))` loop
\* ends, what was collected is sorted and returned, and dropping the JoinSet aborts
\* the tasks still in it
JoinNextErr ==
    /\ pc = "parallel"
    /\ next_idx = Len(hosts)
    /\ join_set # <<>>
    /\ ~Head(join_set).ok
    /\ results' = Untag(SortByKey(tagged))
    /\ join_set' = <<>>
    /\ task' = [i \in 1..Len(hosts) |->
                   IF task[i] \in {"running", "finished"} THEN "aborted" ELSE task[i]]
    /\ pc' = "returned"
    /\ UNCHANGED <<hosts, sequential, lookup_ip, echo_reply, next_idx, permits,
                   tagged, resolver_calls, pinger_calls, summary, exit_code>>
    /\ UNCHANGED notCheckVars

\* =============================== the admission gate on long host lists
\* run_parallel_checks seen through its semaphore only: the tasks are counted,
\* not told apart, so that lists longer than MAX_CONCURRENT_CHECKS can be explored.

\* longest host list of a gate run
MaxGateHosts == 23

GateIdle ==
    /\ gate_hosts = 0
    /\ gate_idx = 0
    /\ gate_permits = MAX_CONCURRENT_CHECKS
    /\ gate_running = 0
    /\ gate_joined = 0
    /\ gate_pc = "returned"

\* check.rs:62-65, Semaphore::new(MAX_CONCURRENT_CHECKS) and an empty JoinSet
GateInit ==
    /\ gate_hosts \in 0..MaxGateHosts
    /\ gate_idx = 0
    /\ gate_permits = MAX_CONCURRENT_CHECKS
    /\ gate_running = 0
    /\ gate_joined = 0
    /\ gate_pc = "submit"

\* a gate that admits whether or not a permit is free
CanAcquireUngated == TRUE

\* semaphore.acquire_owned() completes only while a permit is free
CanAcquire == gate_permits > 0

\* check.rs:67-78, acquire a permit and spawn the task of the next host
GateSubmit ==
    /\ gate_pc = "submit"
    /\ gate_idx < gate_hosts
    /\ CanAcquire
    /\ gate_permits' = gate_permits - 1
    /\ gate_running' = gate_running + 1
    /\ gate_idx' = gate_idx + 1
    /\ UNCHANGED <<gate_hosts, gate_joined, gate_pc>>
    /\ UNCHANGED notGateVars

\* check.rs:67, the for loop is over
GateSubmitted ==
    /\ gate_pc = "submit"
    /\ gate_idx = gate_hosts
    /\ gate_pc' = "join"
    /\ UNCHANGED <<gate_hosts, gate_idx, gate_permits, gate_running, gate_joined>>
    /\ UNCHANGED notGateVars

\* a task that finishes check_host and never gives its permit back
GateTaskCompleteLeaksPermit ==
    /\ gate_running > 0
    /\ gate_running' = gate_running - 1
    /\ UNCHANGED <<gate_hosts, gate_idx, gate_permits, gate_joined, gate_pc>>
    /\ UNCHANGED notGateVars

\* check.rs:74-76, a task finishes check_host and drops its permit
GateTaskComplete ==
    /\ gate_running > 0
    /\ gate_running' = gate_running - 1
    /\ gate_permits' = gate_permits + 1
    /\ UNCHANGED <<gate_hosts, gate_idx, gate_joined, gate_pc>>
    /\ UNCHANGED notGateVars

\* check.rs:82-84, join_next() yields the output of a finished task
GateJoinNext ==
    /\ gate_pc = "join"
    /\ gate_joined < gate_idx - gate_running
    /\ gate_joined' = gate_joined + 1
    /\ UNCHANGED <<gate_hosts, gate_idx, gate_permits, gate_running, gate_pc>>
    /\ UNCHANGED notGateVars

\* check.rs:82-86, join_next() yields None: return
GateReturn ==
    /\ gate_pc = "join"
    /\ gate_joined = gate_hosts
    /\ gate_pc' = "returned"
    /\ UNCHANGED <<gate_hosts, gate_idx, gate_permits, gate_running, gate_joined>>
    /\ UNCHANGED notGateVars

\* ====================================================== the watch loop
\* longest check run of a cycle, in seconds
MaxCycleSecs == 6

\* cycles of the watch loop that are followed
MaxCycles == 3

\* the command lines: no --watch, a bare --watch, --watch 0, --watch 3, --watch 5
WatchArgs ==
    { [flag |-> FALSE, value |-> None], [flag |-> TRUE, value |-> None] }
        \cup { [flag |-> TRUE, value |-> Some(n)] : n \in { 0, 3, 5 } }

\* the watch: Option<u64> handed to run_check_with_watch for a command line; a --watch
\* without a value arrives as Some(0) (main.rs:28-29)
ParseWatchArg(argv) ==
    IF ~argv.flag THEN None
    ELSE IF IsNone(argv.value) THEN Some(0)
    ELSE argv.value

CliWatchValues == { ParseWatchArg(argv) : argv \in WatchArgs }
EnvWatchValues == { None, Some("abc"), Some("2") }
ConfigIntervals == { 5 }

\* str::parse::<u64>().ok() on the strings the environment may hold
ParseU64(str) ==
    IF str = "0" THEN Some(0)
    ELSE IF str = "2" THEN Some(2)
    ELSE None

\* Option::and_then(|s| s.parse().ok())
AndThenParse(o) == IF IsNone(o) THEN None ELSE ParseU64(Unwrap(o))

\* Option::unwrap_or
UnwrapOr(o, d) == IF IsSome(o) THEN Unwrap(o) ELSE d

\* main.rs:25-37, resolve_watch_interval
resolve_watch_interval(cli_value, env, config_interval) ==
    IF IsNone(cli_value) THEN None
    ELSE IF Unwrap(cli_value) = 0 THEN Some(UnwrapOr(AndThenParse(env), config_interval))
    ELSE Some(Unwrap(cli_value))

\* the whole interval slept after the check, whatever the check took
full_interval_sub(a, b) == a

\* Duration::saturating_sub
saturating_sub(a, b) == IF a >= b THEN a - b ELSE 0

WatchIdle ==
    /\ w_pc = "Idle"
    /\ w_argv = [flag |-> FALSE, value |-> None]
    /\ w_cli = None
    /\ w_env = None
    /\ w_config_interval = 5
    /\ w_interval = None
    /\ w_since_start = 0
    /\ w_remaining = 0
    /\ w_prev_len = 0
    /\ w_gap = None
    /\ w_handler = FALSE
    /\ w_signalled = FALSE
    /\ w_check_runs = 0
    /\ w_last_ok = None

WatchInit ==
    /\ w_pc = "Idle"
    /\ w_argv \in WatchArgs
    /\ w_cli = ParseWatchArg(w_argv)
    /\ w_cli \in CliWatchValues
    /\ w_env \in EnvWatchValues
    /\ w_config_interval \in ConfigIntervals
    /\ w_interval = None
    /\ w_since_start = 0
    /\ w_remaining = 0
    /\ w_prev_len = 0
    /\ w_gap = None
    /\ w_handler = FALSE
    /\ w_signalled = FALSE
    /\ w_check_runs = 0
    /\ w_last_ok = None

\* main.rs:255-270: resolve the interval; without --watch the single-run branch is
\* taken, otherwise the loop is entered and the first cycle starts
WatchStart ==
    /\ w_pc = "Idle"
    /\ w_interval' = resolve_watch_interval(w_cli, w_env, w_config_interval)
    /\ w_pc' = IF IsNone(w_interval') THEN "SingleRun" ELSE "Running"
    /\ w_check_runs' = IF IsNone(w_interval') THEN 0 ELSE 1
    /\ UNCHANGED <<w_argv, w_cli, w_env, w_config_interval, w_since_start, w_remaining,
                   w_prev_len, w_gap, w_handler, w_signalled,
                   w_last_ok>>
    /\ UNCHANGED notWatchVars

\* main.rs:258-264, the single run: one cmd_check, then the process ends (exit code 1
\* when the check did not succeed, an error when it failed)
WatchSingleRun ==
    /\ w_pc = "SingleRun"
    /\ w_check_runs' = w_check_runs + 1
    /\ w_pc' = "Done"
    /\ UNCHANGED <<w_argv, w_cli, w_env, w_config_interval, w_interval, w_since_start,
                   w_remaining, w_prev_len, w_gap, w_handler, w_signalled,
                   w_last_ok>>
    /\ UNCHANGED notWatchVars

\* main.rs:272-285, the cycle's cmd_check_compact fails to create the ping client:
\* `?` returns the error out of the loop
WatchCheckFails(d) ==
    /\ w_pc = "Running"
    /\ w_since_start' = w_since_start + d
    /\ w_pc' = "Failed"
    /\ UNCHANGED <<w_argv, w_cli, w_env, w_config_interval, w_interval, w_remaining,
                   w_prev_len, w_gap, w_handler, w_signalled, w_check_runs,
                   w_last_ok>>
    /\ UNCHANGED notWatchVars

\* the check run of a cycle ending the process with exit code 1 when a host failed,
\* as the single run does
WatchCheckExitsOnFailure(d, ok) ==
    /\ w_pc = "Running"
    /\ w_since_start' = w_since_start + d
    /\ w_remaining' = saturating_sub(Unwrap(w_interval), w_since_start')
    /\ w_handler' \in (IF w_remaining' > 0 THEN { TRUE } ELSE { w_handler, TRUE })
    /\ w_last_ok' = Some(ok)
    /\ w_pc' = IF ok THEN "Sleeping" ELSE "Exited"
    /\ UNCHANGED <<w_argv, w_cli, w_env, w_config_interval, w_interval, w_prev_len, w_gap,
                   w_signalled, w_check_runs>>
    /\ UNCHANGED notWatchVars

\* main.rs:272-296, the cycle's check run takes d seconds and returns Ok(ok), ok
\* telling whether every checked host succeeded (the value is dropped by let _ =);
\* then elapsed and remaining are computed and the select starts.
\* With time left to sleep the select polls signal::ctrl_c(), which installs the
\* SIGINT handler; with none the sleep may be polled first and complete the select
\* before ctrl_c() is ever polled.
WatchCheck(d, ok) ==
    /\ w_pc = "Running"
    /\ w_since_start' = w_since_start + d
    /\ w_remaining' = saturating_sub(Unwrap(w_interval), w_since_start')
    /\ w_handler' \in (IF w_remaining' > 0 THEN { TRUE } ELSE { w_handler, TRUE })
    /\ w_last_ok' = Some(ok)
    /\ w_pc' = "Sleeping"
    /\ UNCHANGED <<w_argv, w_cli, w_env, w_config_interval, w_interval, w_prev_len, w_gap,
                   w_signalled, w_check_runs>>
    /\ UNCHANGED notWatchVars

\* main.rs:293-295 and 269-270, the sleep elapses first: the next cycle starts
WatchSleepElapsed ==
    /\ w_pc = "Sleeping"
    /\ w_check_runs < MaxCycles
    /\ w_gap' = Some(w_since_start + w_remaining)
    /\ w_prev_len' = w_since_start
    /\ w_since_start' = 0
    /\ w_check_runs' = w_check_runs + 1
    /\ w_pc' = "Running"
    /\ UNCHANGED <<w_argv, w_cli, w_env, w_config_interval, w_interval, w_remaining,
                   w_handler, w_signalled,
                   w_last_ok>>
    /\ UNCHANGED notWatchVars

\* main.rs:296-299, Ctrl+C arrives t seconds into the wait, while the ctrl_c() future
\* of this select is listening: the loop breaks
WatchCtrlC(t) ==
    /\ w_pc = "Sleeping"
    /\ w_handler
    /\ t <= w_remaining
    /\ w_since_start' = w_since_start + t
    /\ w_signalled' = TRUE
    /\ w_pc' = "Stopped"
    /\ UNCHANGED <<w_argv, w_cli, w_env, w_config_interval, w_interval, w_remaining,
                   w_prev_len, w_gap, w_handler, w_check_runs,
                   w_last_ok>>
    /\ UNCHANGED notWatchVars

\* main.rs:296, SIGINT arrives before signal::ctrl_c() was ever polled: no handler is
\* installed yet, the default disposition ends the process where it stands
WatchSigintDefault ==
    /\ w_pc \in { "Running", "Sleeping" }
    /\ ~w_handler
    /\ w_signalled' = TRUE
    /\ w_pc' = "Killed"
    /\ UNCHANGED <<w_argv, w_cli, w_env, w_config_interval, w_interval, w_since_start,
                   w_remaining, w_prev_len, w_gap, w_handler, w_check_runs,
                   w_last_ok>>
    /\ UNCHANGED notWatchVars

\* main.rs:284-296, SIGINT arrives after the handler was installed but while no
\* ctrl_c() future is listening (the cycle's check run is in progress, or the sleep
\* of a zero wait has already completed the select): the handler notifies nobody,
\* and the ctrl_c() future of the next select only sees later signals
WatchSigintUnheard ==
    /\ \/ w_pc = "Running"
       \/ w_pc = "Sleeping" /\ w_remaining = 0
    /\ w_handler
    /\ ~w_signalled
    /\ w_signalled' = TRUE
    /\ UNCHANGED <<w_pc, w_argv, w_cli, w_env, w_config_interval, w_interval, w_since_start,
                   w_remaining, w_prev_len, w_gap, w_handler, w_check_runs,
                   w_last_ok>>
    /\ UNCHANGED notWatchVars

\* ====================================================== specifications
CheckIdle ==
    /\ hosts = <<>>
    /\ sequential = FALSE
    /\ lookup_ip = [h \in Hostnames |-> LookupErr("NoRecordsFound")]
    /\ echo_reply = [ip \in PingTargets |-> EchoErr("Timeout")]
    /\ pc = "exited"
    /\ next_idx = 0
    /\ permits = 0
    /\ task = <<>>
    /\ join_set = <<>>
    /\ tagged = <<>>
    /\ results = <<>>
    /\ resolver_calls = <<>>
    /\ pinger_calls = <<>>
    /\ summary = NoSummary
    /\ exit_code = None

\* one check run (cxn check), every probe returning
Init == CheckInit /\ GateIdle /\ WatchIdle /\ PairIdle /\ PingIdle

Next ==
    \/ CmdCheckNoHosts
    \/ CreateClientFails
    \/ RunAllChecks
    \/ SequentialCheck
    \/ Submit
    \/ \E i \in 1..Len(hosts) : TaskComplete(i)
    \/ JoinNext
    \/ CollectReturn
    \/ CmdCheckSummary

Spec == Init /\ [][Next]_vars

\* one check run in which a unit of work may panic
NextFault ==
    \/ Next
    \/ \E i \in 1..Len(hosts) : TaskPanics(i)
    \/ JoinNextErr

SpecFault == Init /\ [][NextFault]_vars

\* check.rs:40-53, run_all_checks called again with parallel = true on the config,
\* the resolver and the pinger of a sequential run that has returned
RerunParallel ==
    /\ pc = "returned"
    /\ sequential
    /\ seq_results = None
    /\ seq_results' = Some(results)
    /\ sequential' = FALSE
    /\ pc' = "parallel"
    /\ next_idx' = 0
    /\ permits' = MAX_CONCURRENT_CHECKS
    /\ task' = [i \in 1..Len(hosts) |-> "unspawned"]
    /\ join_set' = <<>>
    /\ tagged' = <<>>
    /\ results' = <<>>
    /\ resolver_calls' = [i \in 1..Len(hosts) |-> <<>>]
    /\ pinger_calls' = [i \in 1..Len(hosts) |-> <<>>]
    /\ UNCHANGED <<hosts, lookup_ip, echo_reply, summary, exit_code>>
    /\ UNCHANGED <<gateVars, watchVars, pingVars>>

\* the same hosts and the same answers checked sequentially, then in parallel
InitBoth == Init /\ sequential

NextBoth ==
    \/ Next
    \/ RerunParallel

SpecBoth == InitBoth /\ [][NextBoth]_vars

\* ------------------------------------------------ one ping_host call
\* largest count of a ping_host call
MaxCount == 3

\* what one echo of the call may be answered with
PingEchoOutcomes ==
    { EchoOk(10), EchoOk(13), EchoErr("Timeout"), EchoErr("PermissionDenied") }

\* the answers to the echoes of a call with count n
EchoesOfCount(n) == [1..n -> PingEchoOutcomes]

\* ping.rs:74-85, ping_host is called with a count of 0..MaxCount
PingInit ==
    /\ ping_pc = "called"
    /\ ping_echoes \in UNION { EchoesOfCount(n) : n \in 0..MaxCount }
    /\ ping_result = None

\* ping.rs:87-109, the echoes are sent one after the other and the result is built
PingHostReturns ==
    /\ ping_pc = "called"
    /\ ping_result' = Some(ping_host(ping_echoes, "A", Ip8888, DefaultTimeoutMs))
    /\ ping_pc' = "returned"
    /\ UNCHANGED ping_echoes
    /\ UNCHANGED notPingVars

InitPing == CheckIdle /\ GateIdle /\ WatchIdle /\ PairIdle /\ PingInit

NextPing == PingHostReturns

SpecPing == InitPing /\ [][NextPing]_vars

\* the semaphore of a parallel run over a long host list
InitGate == CheckIdle /\ GateInit /\ WatchIdle /\ PairIdle /\ PingIdle

NextGate ==
    \/ GateSubmit
    \/ GateSubmitted
    \/ GateTaskComplete
    \/ GateJoinNext
    \/ GateReturn

SpecGate == InitGate /\ [][NextGate]_vars

\* the same run on a runtime that keeps polling every task that can make progress,
\* with every resolver and pinger call returning: the main task is resumed when a
\* permit is free or a task's output is ready, and a spawned task runs to its end
GateFairness ==
    /\ WF_vars(GateSubmit)
    /\ WF_vars(GateSubmitted)
    /\ WF_vars(GateTaskComplete)
    /\ WF_vars(GateJoinNext)
    /\ WF_vars(GateReturn)

SpecGateFair == InitGate /\ [][NextGate]_vars /\ GateFairness

\* cxn check --watch
InitWatch == CheckIdle /\ GateIdle /\ WatchInit /\ PairIdle /\ PingIdle

NextWatch ==
    \/ WatchStart
    \/ \E d \in 0..MaxCycleSecs : WatchCheckFails(d)
    \/ \E d \in 0..MaxCycleSecs, ok \in BOOLEAN : WatchCheck(d, ok)
    \/ WatchSleepElapsed
    \/ \E t \in 0..MaxCycleSecs : WatchCtrlC(t)
    \/ WatchSingleRun
    \/ WatchSigintDefault
    \/ WatchSigintUnheard

SpecWatch == InitWatch /\ [][NextWatch]_vars

\* the same loop when every check run returns (each probe is bounded by its timeout)
\* and the timer of the sleep fires
WatchFairness ==
    /\ WF_vars(\/ \E d \in 0..MaxCycleSecs, ok \in BOOLEAN : WatchCheck(d, ok)
               \/ \E d \in 0..MaxCycleSecs : WatchCheckFails(d))
    /\ WF_vars(WatchSleepElapsed)

SpecWatchFair == InitWatch /\ [][NextWatch]_vars /\ WatchFairness

\* ====================================================== properties

\* run_all_checks has returned to cmd_check
Returned == pc = "returned"

\* C1: when run_all_checks returns, in sequential and in parallel mode, the output
\* has exactly one result per configured host and output[i] carries the name and the
\* address of hosts[i], whatever order the probes completed in.
OneResultPerHostInOrder ==
    Returned =>
        /\ Len(results) = Len(hosts)
        /\ \A i \in 1..Len(hosts) :
              /\ results[i].name = hosts[i].name
              /\ results[i].address = hosts[i].address

\* a parallel run returned although the second host's probe completed first
OutOfOrderCompletionReturned ==
    /\ Returned
    /\ ~sequential
    /\ Len(hosts) = MaxHosts
    /\ Len(tagged) = MaxHosts
    /\ tagged[1].idx = MaxHosts - 1

\* C2: in parallel mode at most MAX_CONCURRENT_CHECKS (20) host probes are in flight
\* in every reachable state, also for host lists longer than that.
AtMostTwentyInFlight == gate_running <= 20

\* the gate is saturated and a host is still waiting for a permit
GateSaturated ==
    /\ gate_running = MAX_CONCURRENT_CHECKS
    /\ gate_pc = "submit"
    /\ gate_idx < gate_hosts

\* C3: for every CheckResult, is_success is true iff every present sub-result has
\* success = true; an absent sub-result never contributes, and a result with both
\* absent is successful.
IsSuccessIffPresentSucceed ==
    \A i \in 1..Len(results) :
        LET r == results[i]
        IN /\ is_success(r) <=>
                 /\ (r.dns # None => r.dns[1].success)
                 /\ (r.ping # None => r.ping[1].success)
           /\ (r.dns = None /\ r.ping = None) => is_success(r)

\* a result with one sub-result absent and the other failed, next to one with both absent
MixedResultsProduced ==
    /\ \E i \in 1..Len(results) :
          results[i].dns = None /\ results[i].ping = None /\ is_success(results[i])
    /\ \E i \in 1..Len(results) :
          results[i].dns = None /\ results[i].ping # None /\ ~is_success(results[i])

\* cmd_check has tallied a run over a non-empty host list
Tallied == pc = "exited" /\ summary.ok # None /\ hosts # <<>>

HostsWithChecks == { i \in 1..Len(hosts) : hosts[i].ping \/ hosts[i].dns }

\* C4: in the aggregate tally the hosts-checked denominator is the number of hosts
\* with ping or dns enabled, a host with neither is counted in neither the success
\* numerator nor the denominator, and the success count never exceeds the
\* hosts-checked count.
TallyCountsOnlyHostsWithChecks ==
    Tallied =>
        /\ summary.hosts_checked = Cardinality(HostsWithChecks)
        /\ summary.success_count =
              Cardinality({ i \in HostsWithChecks : is_success(results[i]) })
        /\ summary.success_count <= summary.hosts_checked

\* C5: a single check run reports success and exits with status 0 iff every host
\* with at least one check enabled produced a successful result, however many
\* hosts without checks are in the list; otherwise it exits non-zero.
ExitZeroIffCheckedHostsSucceed ==
    Tallied =>
        LET all_ok == \A i \in HostsWithChecks : is_success(results[i])
        IN /\ (exit_code = Some(0)) <=> all_ok
           /\ (summary.ok = Some(TRUE)) <=> all_ok

\* the scenario of C6: A = 8.8.8.8 with ping only, B = bad.invalid with ping and dns,
\* the resolver failing for bad.invalid, the pinger answering 8.8.8.8 in 10 ms
ScenarioAB ==
    /\ hosts = <<HostConfig("A", "8.8.8.8", TRUE, FALSE),
                 HostConfig("B", "bad.invalid", TRUE, TRUE)>>
    /\ ~lookup_ip["bad.invalid"].ok
    /\ echo_reply[Ip8888] = EchoOk(10)

\* what C6 says of A and of B's resolution, and the aggregate 1 of 2 OK
ScenarioABCommon ==
    /\ results[1].name = "A"
    /\ results[1].ping = Some(PingSuccess("A", Ip8888, 10))
    /\ results[1].dns = None
    /\ results[2].name = "B"
    /\ results[2].dns # None
    /\ ~results[2].dns[1].success
    /\ summary.success_count = 1
    /\ summary.hosts_checked = 2

\* C6 as stated: in the scenario the run yields A with a successful probe (rtt 10 ms)
\* and no resolution outcome, B with a failed resolution outcome and no probe
\* outcome, and the aggregate is 1 of 2 hosts OK.
ScenarioABProbeAbsent ==
    (ScenarioAB /\ Tallied) => (ScenarioABCommon /\ results[2].ping = None)

\* C6 amended: in the scenario the run yields A with a successful probe (rtt 10 ms)
\* and no resolution outcome, B with a failed resolution outcome and a failed probe
\* outcome "could not resolve hostname" produced without calling the pinger, and
\* the aggregate is 1 of 2 hosts OK.
ScenarioABProbeSynthesized ==
    (ScenarioAB /\ Tallied) =>
        /\ ScenarioABCommon
        /\ results[2].ping =
              Some(PingFailure("B", IpUnspecified, <<"could not resolve hostname">>))
        /\ pinger_calls[2] = <<>>
        /\ summary.ok = Some(FALSE)

\* the scenario has been run in parallel mode and tallied
ScenarioABTallied == ScenarioAB /\ Tallied /\ ~sequential

\* C7: after each cycle the watch loop waits remaining = max(0, interval - elapsed
\* since the cycle's start): consecutive cycle starts are exactly one interval apart
\* when the cycle took no longer than the interval (interval 5, cycle 2: sleep 3),
\* and the next cycle starts at once, with no negative sleep, when it took longer
\* (cycle 6: sleep 0).
WaitIsRestOfInterval ==
    /\ w_pc = "Sleeping" =>
          LET interval == w_interval[1]
              elapsed == w_since_start
          IN /\ w_remaining >= 0
             /\ elapsed <= interval => w_remaining = interval - elapsed
             /\ elapsed > interval => w_remaining = 0
             /\ (interval = 5 /\ elapsed = 2) => w_remaining = 3
             /\ (interval = 5 /\ elapsed = 6) => w_remaining = 0
    /\ (w_pc = "Running" /\ w_gap # None) =>
          LET interval == w_interval[1]
          IN /\ w_prev_len <= interval => w_gap[1] = interval
             /\ w_prev_len > interval => w_gap[1] = w_prev_len

\* a cycle of 6 s under an interval of 5 s was followed at once by the next cycle
OverrunFollowedAtOnce ==
    /\ w_pc = "Running"
    /\ w_interval = Some(5)
    /\ w_prev_len = 6
    /\ w_gap = Some(6)

\* C8: for a host whose address is a literal IP and whose dns flag is true,
\* check_host never calls the resolver, whatever the ping flag; should_resolve_dns is
\* false for every literal-IP address and true exactly when dns is enabled and the
\* address is a hostname.
LiteralIpNeverResolved ==
    \A i \in 1..Len(hosts) :
        /\ hosts[i].address = "8.8.8.8" =>
              /\ resolver_calls[i] = <<>>
              /\ ~should_resolve_dns(hosts[i])
        /\ should_resolve_dns(hosts[i]) <=>
              (hosts[i].dns /\ hosts[i].address = "bad.invalid")

\* check_host has pinged a literal-IP host that has its dns flag set
LiteralIpWithDnsChecked ==
    \E i \in 1..Len(hosts) :
        /\ hosts[i].address = "8.8.8.8"
        /\ hosts[i].dns
        /\ pinger_calls[i] # <<>>

\* hosts with ping enabled, dns disabled and a hostname address
PingOnlyHostnames ==
    { i \in 1..Len(hosts) :
        hosts[i].ping /\ ~hosts[i].dns /\ hosts[i].address = "bad.invalid" }

\* the lookup check_host makes for ping's sake (IPv4 only) fails for host i
InternalLookupFails(i) ==
    ~resolve_dns(lookup_ip[hosts[i].address], hosts[i].name, hosts[i].address, FALSE).success

\* C9: for a host with ping enabled, dns disabled and a hostname address, if the
\* internal lookup fails the result has a failed ping outcome whose error is exactly
\* "could not resolve hostname", no dns outcome, and the pinger is not called; if
\* the lookup succeeds the result still has no dns outcome.
UnresolvedPingTargetFails ==
    Returned =>
        \A i \in PingOnlyHostnames :
            /\ results[i].dns = None
            /\ InternalLookupFails(i) =>
                  /\ results[i].ping # None
                  /\ ~results[i].ping[1].success
                  /\ results[i].ping[1].error = Some(<<"could not resolve hostname">>)
                  /\ pinger_calls[i] = <<>>

\* a ping-only hostname has been checked whose internal lookup failed although the
\* resolver answered (with an IPv6 address only)
PingOnlyHostnameUnresolved ==
    /\ Returned
    /\ lookup_ip["bad.invalid"].ok
    /\ \E i \in PingOnlyHostnames : InternalLookupFails(i) /\ resolver_calls[i] # <<>>

\* C10: in parallel mode, if one host's unit of work panics, the results of all
\* other hosts are still collected and returned and the faulty host appears in the
\* output as a failed result, so the batch still returns one result per host.
PanicIsolatedPerHost ==
    (Returned /\ ~sequential) =>
        /\ Len(results) = Len(hosts)
        /\ \A i \in 1..Len(hosts) :
              /\ results[i].name = hosts[i].name
              /\ task[i] = "panicked" => ~is_success(results[i])

\* C11: for the same host list and the same resolver and pinger answers per host,
\* sequential mode and parallel mode return identical result sequences (same length,
\* same order, same dns and ping outcomes for every host), for every interleaving
\* of the parallel probes.
ParallelEqualsSequential ==
    (Returned /\ ~sequential /\ seq_results # None) =>
        /\ Len(results) = Len(seq_results[1])
        /\ \A i \in 1..Len(results) :
              /\ results[i].name = seq_results[1][i].name
              /\ results[i].address = seq_results[1][i].address
              /\ results[i].dns = seq_results[1][i].dns
              /\ results[i].ping = seq_results[1][i].ping

\* the parallel rerun returned, its first host completing last, with hosts whose
\* outcomes differ from one another
RerunReturnedOutOfOrder ==
    /\ Returned
    /\ ~sequential
    /\ seq_results # None
    /\ Len(hosts) = MaxHosts
    /\ tagged[Len(tagged)].idx = 0
    /\ results[1].ping # results[2].ping

\* C12: in watch mode a cancellation signal received while the loop is Running or
\* Sleeping moves the loop to Stopped: the cycle in flight finishes and no new cycle
\* starts after it, also when the signal arrives during the cycle's check run or
\* when the remaining sleep is zero. Stated on steps: once a signal was received,
\* no step starts a new cycle.
NoCycleStartsAfterSignal ==
    [][w_signalled => ~(w_pc = "Sleeping" /\ w_pc' = "Running")]_vars

\* C13: in watch mode the cancellation signal is acted on only at the inter-cycle
\* wait: a step on which a signal ends the loop is taken from Sleeping, with the
\* cycle's check run finished, and once the loop has ended no further step is taken
\* (the ended state is terminal, no check run starts after it).
SignalActedOnOnlyAtWait ==
    [][/\ (~w_signalled /\ w_signalled' /\ w_pc' # w_pc) => w_pc = "Sleeping"
       /\ w_pc \in { "Stopped", "Killed" } => w_pc' = w_pc
       /\ w_pc \in { "Stopped", "Killed" } => w_check_runs' = w_check_runs]_vars

\* C14: the watch interval is resolved with the precedence explicit per-invocation
\* value > environment override (CXN_WATCH_INTERVAL) > config default > watch
\* disabled: whenever an explicit value is given on the command line it is the
\* interval used, whatever the environment and the config say; otherwise a parseable
\* environment value is used; otherwise the config default; and when watch is not
\* requested at all the result is 'disabled' and exactly one check run is performed,
\* with no loop.
IntervalPrecedence ==
    w_pc # "Idle" =>
        /\ (w_argv.flag /\ w_argv.value # None) => w_interval = w_argv.value
        /\ (w_argv.flag /\ w_argv.value = None /\ w_env = Some("2")) =>
              w_interval = Some(2)
        /\ (w_argv.flag /\ w_argv.value = None /\ w_env # Some("2")) =>
              w_interval = Some(w_config_interval)
        /\ ~w_argv.flag =>
              /\ w_interval = None
              /\ w_pc \in { "SingleRun", "Done" }
              /\ w_check_runs = (IF w_pc = "Done" THEN 1 ELSE 0)

\* C15: for every host, the result's ping outcome is present if and only if ping is
\* enabled, and its dns outcome is present if and only if dns is enabled and the
\* address is a hostname (not a literal IP); a host with neither ping nor dns enabled
\* yields a result with both fields absent and triggers no resolver or pinger call.
OutcomePresentIffRequested ==
    /\ \A i \in 1..Len(hosts) :
          (~hosts[i].ping /\ ~hosts[i].dns) =>
              resolver_calls[i] = <<>> /\ pinger_calls[i] = <<>>
    /\ Returned =>
          \A i \in 1..Len(hosts) :
              /\ results[i].ping # None <=> hosts[i].ping
              /\ results[i].dns # None <=>
                    (hosts[i].dns /\ hosts[i].address = "bad.invalid")
              /\ (~hosts[i].ping /\ ~hosts[i].dns) =>
                    results[i].ping = None /\ results[i].dns = None

\* a run has returned for a host without checks next to a hostname with both checks
NoCheckHostBesideFullCheck ==
    /\ Returned
    /\ Len(hosts) = 2
    /\ ~hosts[1].ping /\ ~hosts[1].dns
    /\ results[1].ping = None /\ results[1].dns = None
    /\ hosts[2].ping /\ hosts[2].dns /\ hosts[2].address = "bad.invalid"
    /\ results[2].ping # None /\ results[2].dns # None

\* the IPv4 addresses of a lookup's answer, in the answer's order
V4Only(ips) == SelectSeq(ips, LAMBDA ip : ~ip.v6)

\* the target IP of host i: the literal address, or the first address of a
\* successful lookup (both families for a dns check, IPv4 only for ping's sake)
TargetOf(i) ==
    IF hosts[i].address = "8.8.8.8" THEN Some(Ip8888)
    ELSE LET answer == lookup_ip[hosts[i].address]
             wanted == IF hosts[i].dns THEN answer.ips ELSE V4Only(answer.ips)
         IN IF answer.ok /\ wanted # <<>> THEN Some(wanted[1]) ELSE None

\* C16: check_host calls the pinger only when ping is enabled and a target IP has
\* been obtained (the literal address, or the first address of a successful lookup),
\* and then exactly once with that IP, the configured timeout and a count of 1; when
\* ping is enabled and no target IP was obtained, the pinger is never called and a
\* failed ping outcome with error "could not resolve hostname" is synthesized.
PingerCalledOnceWithTarget ==
    /\ \A i \in 1..Len(hosts) :
          /\ Len(pinger_calls[i]) <= 1
          /\ pinger_calls[i] # <<>> => (hosts[i].ping /\ TargetOf(i) # None)
    /\ Returned =>
          \A i \in 1..Len(hosts) :
              /\ (hosts[i].ping /\ TargetOf(i) # None) =>
                    pinger_calls[i] =
                        << [ip |-> TargetOf(i)[1], timeout |-> 1000, count |-> 1] >>
              /\ (hosts[i].ping /\ TargetOf(i) = None) =>
                    /\ pinger_calls[i] = <<>>
                    /\ results[i].ping # None
                    /\ ~results[i].ping[1].success
                    /\ results[i].ping[1].error = Some(<<"could not resolve hostname">>)

\* a run has returned in which one host was pinged at the address its lookup gave
\* and another, whose lookup gave none, was not pinged
PingedAndUnpingedHosts ==
    /\ Returned
    /\ \E i, j \in 1..Len(hosts) :
          /\ hosts[i].ping /\ hosts[i].address = "bad.invalid"
          /\ pinger_calls[i] # <<>>
          /\ hosts[j].ping /\ TargetOf(j) = None
          /\ resolver_calls[j] # <<>>
          /\ results[j].ping # None

\* C17: for a host with dns enabled and a hostname address, check_host performs one
\* resolver lookup requesting both address families and records its outcome as the
\* result's dns outcome whether it succeeded or failed; if it succeeded and ping is
\* enabled, the ping target is the first address of that lookup's address list.
DnsLookupRecordedAndFirstPinged ==
    Returned =>
        \A i \in 1..Len(hosts) :
            (hosts[i].dns /\ hosts[i].address = "bad.invalid") =>
                LET answer == lookup_ip["bad.invalid"]
                IN /\ resolver_calls[i] =
                          << [hostname |-> "bad.invalid", include_ipv6 |-> TRUE] >>
                   /\ results[i].dns # None
                   /\ results[i].dns[1].success = answer.ok
                   /\ results[i].dns[1].addresses = answer.ips
                   /\ ~answer.ok => results[i].dns[1].error # None
                   /\ (answer.ok /\ hosts[i].ping) =>
                         /\ Len(pinger_calls[i]) = 1
                         /\ pinger_calls[i][1].ip = answer.ips[1]

\* a hostname with dns and ping enabled resolved to an IPv6 address followed by an
\* IPv4 address, and the IPv6 address was pinged
FirstOfTwoAddressesPinged ==
    /\ Returned
    /\ lookup_ip["bad.invalid"].ips = <<Ip6Host, Ip4Host>>
    /\ \E i \in 1..Len(hosts) :
          /\ hosts[i].dns /\ hosts[i].ping /\ hosts[i].address = "bad.invalid"
          /\ results[i].dns[1].success
          /\ pinger_calls[i] # <<>>
          /\ pinger_calls[i][1].ip = Ip6Host

\* the tasks that hold a permit: spawned, check_host not yet finished
HeldSlots == Cardinality({ i \in 1..Len(hosts) : task[i] = "running" })

\* C18: in parallel mode each host probe holds exactly one admission slot from
\* before it starts until it completes, and releases it on completion whether the
\* host's checks succeeded or failed: the step that starts a probe takes one slot,
\* the step that completes it gives one back, in every reachable state free slots
\* plus held slots equal 20, and when the run returns all 20 slots are free.
SlotHeldFromStartToCompletion ==
    /\ [](/\ pc = "parallel" => permits + HeldSlots = 20
          /\ (Returned /\ ~sequential) => (permits = 20 /\ HeldSlots = 0))
    /\ [][/\ \A i \in 1..Len(hosts) :
              /\ (task[i] = "unspawned" /\ task'[i] = "running") =>
                    permits' = permits - 1
              /\ (task[i] = "running" /\ task'[i] # "running") =>
                    permits' = permits + 1
          /\ (pc = "parallel" /\ \A i \in 1..Len(hosts) :
                                    (task[i] = "running") = (task'[i] = "running")) =>
                permits' = permits]_vars

\* a parallel run has returned with every permit back, one host's checks having
\* failed and the other's having succeeded
AllSlotsFreeAfterMixedRun ==
    /\ Returned
    /\ ~sequential
    /\ permits = 20
    /\ Len(hosts) = 2
    /\ has_checks(hosts[1]) /\ ~is_success(results[1])
    /\ has_checks(hosts[2]) /\ is_success(results[2])

\* the echoes of the call that were answered, in order
AnsweredEchoes == SelectSeq(ping_echoes, LAMBDA e : e.ok)

\* the round-trip times of the first k echoes of s, added up
RECURSIVE TotalRtt(_, _)
TotalRtt(s, k) == IF k = 0 THEN 0 ELSE s[k].rtt + TotalRtt(s, k - 1)

\* C19: ping_host with a given count returns success with the mean round-trip time
\* of the answered echoes (the integer part of the mean) whenever at least one of
\* the count echoes was answered, and returns failure carrying the error of the last
\* failed echo when none was answered, for counts up to MaxCount and integer
\* round-trip times; with a count of 0 no echo fails and the error is the default.
MeanOfAnsweredOrLastError ==
    ping_pc = "returned" =>
        LET r == ping_result[1]
            n == Len(AnsweredEchoes)
            total == TotalRtt(AnsweredEchoes, n)
            last == ping_echoes[Len(ping_echoes)]
        IN /\ n > 0 =>
                /\ r.success
                /\ r.error = None
                /\ r.rtt # None
                /\ n * r.rtt[1] <= total
                /\ total < n * (r.rtt[1] + 1)
           /\ n = 0 =>
                /\ ~r.success
                /\ r.rtt = None
                /\ r.error # None
           /\ (n = 0 /\ ping_echoes # <<>> /\ last.kind = "Timeout") =>
                r.error = Some(<<"timeout after ", 1000, "ms">>)
           /\ (n = 0 /\ ping_echoes # <<>> /\ last.kind = "PermissionDenied") =>
                r.error = Some(<<"permission denied (need cap_net_raw)">>)
           /\ ping_echoes = <<>> => r.error = Some(<<"all pings failed">>)

\* a call with count 3 has returned whose second echo failed and whose other two
\* were answered after 10 ms and 13 ms: mean 11 ms
PartialSuccessAveraged ==
    /\ ping_pc = "returned"
    /\ Len(ping_echoes) = 3
    /\ ping_echoes[1] = EchoOk(10)
    /\ ~ping_echoes[2].ok
    /\ ping_echoes[3] = EchoOk(13)
    /\ ping_result[1].success
    /\ ping_result[1].rtt = Some(11)

\* C20: for every finite host list, also one longer than 20, and provided every
\* resolver and pinger call returns, a parallel run terminates: the submission loop
\* does not wait for a permit for ever, every submitted probe completes in the end,
\* and run_parallel_checks returns in the end, with every host's output joined.
ParallelRunTerminates ==
    /\ (gate_pc = "submit") ~> (gate_pc = "join" /\ gate_idx = gate_hosts)
    /\ <>(/\ gate_pc = "returned"
          /\ gate_running = 0
          /\ gate_joined = gate_hosts
          /\ gate_permits = MAX_CONCURRENT_CHECKS)

\* a run over more hosts than there are permits has returned
LongHostListReturned ==
    /\ gate_pc = "returned"
    /\ gate_hosts > MAX_CONCURRENT_CHECKS
    /\ gate_joined = gate_hosts

\* C21: check_host makes at most one resolver call per host in a run; in particular,
\* when dns is enabled for a hostname and that lookup fails, no second lookup is
\* attempted to obtain a ping target: the only call is the dns check's own, and a
\* ping that is enabled fails unresolved without a pinger call.
AtMostOneResolverCallPerHost ==
    /\ \A i \in 1..Len(hosts) : Len(resolver_calls[i]) <= 1
    /\ Returned =>
          \A i \in 1..Len(hosts) :
              (/\ hosts[i].dns
               /\ hosts[i].address = "bad.invalid"
               /\ ~results[i].dns[1].success) =>
                  /\ resolver_calls[i] =
                         << [hostname |-> "bad.invalid", include_ipv6 |-> TRUE] >>
                  /\ hosts[i].ping =>
                         /\ pinger_calls[i] = <<>>
                         /\ ~results[i].ping[1].success

\* a hostname with dns and ping enabled was checked, its lookup failed, and the
\* resolver was called once for it
FailedDnsLookupNotRetried ==
    /\ Returned
    /\ ~lookup_ip["bad.invalid"].ok
    /\ \E i \in 1..Len(hosts) :
          /\ hosts[i].dns /\ hosts[i].ping /\ hosts[i].address = "bad.invalid"
          /\ ~results[i].dns[1].success
          /\ Len(resolver_calls[i]) = 1
          /\ results[i].ping # None

\* the loop has ended on the cancellation signal: the select's ctrl_c() branch, or
\* the default action of a SIGINT that no handler took
EndedBySignal == w_pc \in { "Stopped", "Killed" } /\ w_signalled

\* C22: in watch mode a cycle in which some or all hosts fail their checks does not
\* stop the loop and does not terminate the process: whatever bool the check run
\* returns, the loop goes on to its wait; it ends only on the cancellation signal or
\* when a cycle's check run returns an error (the ping client could not be made);
\* and otherwise another cycle always starts in the end (as long as cycles are
\* followed, up to MaxCycles).
FailedCycleDoesNotStopLoop ==
    /\ [][/\ (w_pc = "Running" /\ w_pc' # "Running") =>
                (w_pc' = "Sleeping" \/ w_pc' = "Failed" \/ EndedBySignal')
          /\ (w_pc = "Sleeping" /\ w_pc' # "Sleeping") =>
                (w_pc' = "Running" \/ EndedBySignal')]_vars
    /\ (w_pc = "Running") ~> (w_pc = "Sleeping" \/ w_pc = "Failed" \/ EndedBySignal)
    /\ (w_pc = "Sleeping" /\ w_check_runs < MaxCycles) ~>
          (w_pc = "Running" \/ EndedBySignal)

\* a new cycle has started after a cycle in which a host failed its checks
CycleStartedAfterFailedCycle ==
    /\ w_pc = "Running"
    /\ w_check_runs >= 2
    /\ w_last_ok = Some(FALSE)
    /\ ~w_signalled

====
